---- MODULE Spec2Model ----
(***************************************************************************)
(* A state-machine model of MiniDB (src/minidb.py): the in-memory tables,  *)
(* their equality indexes, the JSON snapshot on disk, and one action per   *)
(* statement kind handled by MiniDB.execute.                               *)
(*                                                                         *)
(* Statements are modelled after tokenisation: a table name, column names  *)
(* and literals are the tokens as typed (case preserved), so that the      *)
(* case folding, casting and textual substitution the code performs stay   *)
(* visible.  Row-ids are 0-based as in the code; a TLA+ sequence is        *)
(* 1-based, so row-id i is data[i + 1].  The engine is constructed with a  *)
(* persist_file, as app.py and the REPL entry point construct it, and the  *)
(* snapshot write succeeds.                                                *)
(***************************************************************************)
EXTENDS Integers, Sequences, FiniteSets, TLC

VARIABLES
    tables,   \* self.tables: table name -> [columns, data, indexes]
    disk,     \* content of persist_file: NoFile, or the JSON snapshot
    last,     \* what the last call of execute (or the constructor) did
    pre,      \* self.tables as they were when that call began
    web       \* the web layer: requests received and not yet handled, and
              \* the request handled last

vars == <<tables, disk, last, pre, web>>

(***************************************************************************)
(* Bounds of the model.                                                    *)
(***************************************************************************)
MaxRows == 2
MaxRequests == 2

(***************************************************************************)
(* Small helpers on sequences and functions.                               *)
(***************************************************************************)
Range(s) == {s[i] : i \in DOMAIN s}

Min2(a, b) == IF a <= b THEN a ELSE b

\* list.remove(x): drops the first occurrence of x
RECURSIVE RemoveFirst(_, _)
RemoveFirst(s, x) ==
    IF s = <<>> THEN <<>>
    ELSE IF Head(s) = x THEN Tail(s)
    ELSE <<Head(s)>> \o RemoveFirst(Tail(s), x)

\* list.pop(i) with a 0-based i: the list without position i
PopAt(s, i) == [j \in 1..(Len(s) - 1) |-> IF j <= i THEN s[j] ELSE s[j + 1]]

\* a dict after d[k] = v
Put(d, k, v) == [x \in (DOMAIN d) \cup {k} |-> IF x = k THEN v ELSE d[x]]

(***************************************************************************)
(* Case folding (str.lower, str.upper) over the identifiers the model      *)
(* uses.                                                                   *)
(***************************************************************************)
Lower(s) ==
    CASE s = "T" -> "t"
      [] s = "U" -> "u"
      [] s = "UID" -> "uid"
      [] s = "K" -> "k"
      [] s = "ZZ" -> "zz"
      [] s = "TRUE" -> "true"
      [] s = "FALSE" -> "false"
      [] s = "YES" -> "yes"
      [] s = "X" -> "x"
      [] s = "Y" -> "y"
      [] s = "INT" -> "int"
      [] s = "UNIQUE" -> "unique"
      [] OTHER -> s

Upper(s) ==
    CASE s = "t" -> "T"
      [] s = "u" -> "U"
      [] s = "uid" -> "UID"
      [] s = "k" -> "K"
      [] s = "zz" -> "ZZ"
      [] s = "true" -> "TRUE"
      [] s = "false" -> "FALSE"
      [] s = "yes" -> "YES"
      [] s = "x" -> "X"
      [] s = "y" -> "Y"
      [] s = "int" -> "INT"
      [] s = "unique" -> "UNIQUE"
      [] OTHER -> s

(***************************************************************************)
(* Values.  A Python value is an int, a str or a bool; the record keeps    *)
(* one field per kind so that values of different kinds can be compared.   *)
(***************************************************************************)
IntV(n) == [t |-> "INT", i |-> n, s |-> "", b |-> FALSE]
StrV(x) == [t |-> "STRING", i |-> 0, s |-> x, b |-> FALSE]
BoolV(x) == [t |-> "BOOLEAN", i |-> 0, s |-> "", b |-> x]

\* Python's ==: bool is a subtype of int (True == 1), str equals only str
Num(v) == IF v.t = "INT" THEN v.i ELSE IF v.b THEN 1 ELSE 0
PyEq(a, b) ==
    IF a.t = "STRING" \/ b.t = "STRING"
    THEN a.t = b.t /\ a.s = b.s
    ELSE Num(a) = Num(b)

\* the digits the model's integer literals are written with
IsIntText(x) == x \in {"0", "1", "2", "3"}
IntOf(x) == CASE x = "0" -> 0 [] x = "1" -> 1 [] x = "2" -> 2 [] x = "3" -> 3
IntText(n) == CASE n = 0 -> "0" [] n = 1 -> "1" [] n = 2 -> "2" [] n = 3 -> "3"

(***************************************************************************)
(* A literal token: its text, and whether it was written in quotes.        *)
(***************************************************************************)
Lit(x) == [text |-> x, q |-> FALSE]
Quoted(x) == [text |-> x, q |-> TRUE]

\* _cast_value: ok = FALSE when int() raises ValueError
cast_value(tok, typ) ==
    CASE typ = "INT" ->
            IF ~tok.q /\ IsIntText(tok.text)
            THEN [ok |-> TRUE, v |-> IntV(IntOf(tok.text))]
            ELSE [ok |-> FALSE, v |-> IntV(0)]
      [] typ = "STRING" -> [ok |-> TRUE, v |-> StrV(tok.text)]
      [] typ = "BOOLEAN" ->
            [ok |-> TRUE,
             v |-> BoolV(~tok.q /\ Lower(tok.text) \in {"true", "1", "yes"})]
      [] OTHER -> [ok |-> TRUE, v |-> StrV(tok.text)]

(***************************************************************************)
(* Outcome of one call of execute: the tables it leaves, how it ended      *)
(* ("ok" or the error it raised), whether it reached self._save(), the     *)
(* rows it returned (SELECT) and the number of rows its message reports    *)
(* (UPDATE, DELETE; 0 where the message carries no number).                *)
(***************************************************************************)
Raise(tabs, err) ==
    [tables |-> tabs, status |-> err, saved |-> FALSE, rows |-> <<>>, count |-> 0]
\* Done, had the statement returned without calling self._save()
Done_without_save(tabs) ==
    [tables |-> tabs, status |-> "ok", saved |-> FALSE, rows |-> <<>>, count |-> 0]
Done(tabs) ==
    [tables |-> tabs, status |-> "ok", saved |-> TRUE, rows |-> <<>>, count |-> 0]
\* Rows, had the SELECT called self._save() before it returned
Rows_with_save(tabs, rs) ==
    [tables |-> tabs, status |-> "ok", saved |-> TRUE, rows |-> rs, count |-> 0]
Rows(tabs, rs) ==
    [tables |-> tabs, status |-> "ok", saved |-> FALSE, rows |-> rs, count |-> 0]
\* f"{len(filtered_idxs)} rows updated", f"{len(filtered_idxs)} rows deleted"
Counted(tabs, n) == [Done(tabs) EXCEPT !.count = n]

(***************************************************************************)
(* Schema.                                                                 *)
(***************************************************************************)
Types == {"INT", "STRING", "BOOLEAN"}

\* one column of CREATE TABLE: parts = col.strip().split() of the upper-cased
\* statement; the keywords are looked up among all the words
column_def(parts) ==
    LET up == {Upper(parts[i]) : i \in DOMAIN parts}
        primary == "PRIMARY" \in up
    IN  [name |-> Lower(parts[1]),
         type |-> Upper(parts[2]),
         primary |-> primary,
         unique |-> "UNIQUE" \in up,
         index |-> ("INDEX" \in up) \/ primary]

\* col_map = {c['name']: c for c in columns}: the last definition of a name wins
HasColumn(columns, c) == \E i \in DOMAIN columns : columns[i].name = c
col_map(columns, c) ==
    columns[CHOOSE i \in DOMAIN columns :
                /\ columns[i].name = c
                /\ \A j \in DOMAIN columns : columns[j].name = c => j <= i]

\* the empty index map of a new table: one entry per column flagged index
empty_indexes(columns) ==
    [c \in {columns[i].name : i \in {j \in DOMAIN columns : columns[j].index}} |-> <<>>]

\* create_table, had it looked the name up as typed
create_table_exact_name(tabs, name, decls) ==
    LET bad(i) == Len(decls[i]) < 2 \/ Upper(decls[i][2]) \notin Types IN
    IF name \in DOMAIN tabs THEN Raise(tabs, "TableExists")
    ELSE IF \E i \in DOMAIN decls : bad(i) THEN Raise(tabs, "InvalidColumn")
    ELSE LET columns == [i \in DOMAIN decls |-> column_def(decls[i])]
         IN  Done(Put(tabs, Lower(name),
                      [columns |-> columns, data |-> <<>>,
                       indexes |-> empty_indexes(columns)]))

\* _create_table, after the regular expression matched
create_table(tabs, name, decls) ==
    LET table_name == Lower(name)
        bad(i) == Len(decls[i]) < 2 \/ Upper(decls[i][2]) \notin Types
    IN
    IF table_name \in DOMAIN tabs THEN Raise(tabs, "TableExists")
    ELSE IF \E i \in DOMAIN decls : bad(i)
    THEN LET first == CHOOSE i \in DOMAIN decls : bad(i) /\ \A j \in 1..(i - 1) : ~bad(j)
         IN  Raise(tabs, IF Len(decls[first]) < 2 THEN "InvalidColumn"
                         ELSE "UnsupportedType")
    ELSE LET columns == [i \in DOMAIN decls |-> column_def(decls[i])]
         IN  Done(Put(tabs, table_name,
                      [columns |-> columns, data |-> <<>>,
                       indexes |-> empty_indexes(columns)]))

(***************************************************************************)
(* Index maintenance.  An index is a dict value -> list of row-ids.        *)
(***************************************************************************)
\* if val not in idx_dict: idx_dict[val] = []; idx_dict[val].append(row_idx)
index_add(idx_dict, val, row_idx) ==
    Put(idx_dict, val,
        IF val \in DOMAIN idx_dict THEN Append(idx_dict[val], row_idx) ELSE <<row_idx>>)

\* index_remove, had it left the row-id in the bucket
index_remove_kept(idx_dict, val, idx) == idx_dict

\* if val in idx_dict and idx in idx_dict[val]: idx_dict[val].remove(idx)
index_remove(idx_dict, val, idx) ==
    IF val \in DOMAIN idx_dict /\ idx \in Range(idx_dict[val])
    THEN [idx_dict EXCEPT ![val] = RemoveFirst(@, idx)]
    ELSE idx_dict

\* every row-id greater than idx, in every bucket of idx_dict, is decremented
index_shift(idx_dict, idx) ==
    [v \in DOMAIN idx_dict |->
        [i \in DOMAIN idx_dict[v] |->
            IF idx_dict[v][i] > idx THEN idx_dict[v][i] - 1 ELSE idx_dict[v][i]]]

\* the indexes of a table after row (at row-id row_idx) was added to them
indexes_add_row(indexes, row, row_idx) ==
    [c \in DOMAIN indexes |->
        IF c \in DOMAIN row THEN index_add(indexes[c], row[c], row_idx) ELSE indexes[c]]

(***************************************************************************)
(* INSERT INTO name (cols) VALUES (vals)                                   *)
(***************************************************************************)
\* row = dict(zip(cols, vals)): the shorter list decides, a repeated column
\* keeps its last value
zip_row(cols, vals) ==
    LET n == Min2(Len(cols), Len(vals)) IN
    [c \in {cols[i] : i \in 1..n} |->
        vals[CHOOSE i \in 1..n : cols[i] = c /\ \A j \in 1..n : cols[j] = c => j <= i]]

\* insert_duplicate, had it tested col['unique'] alone
insert_duplicate_unique_only(table, row) ==
    \E i \in DOMAIN table.columns :
        LET col == table.columns[i] IN
        /\ col.unique
        /\ col.name \in DOMAIN row
        /\ \E r \in Range(table.data) :
              col.name \in DOMAIN r /\ PyEq(r[col.name], row[col.name])

\* the primary/unique check of _insert
insert_duplicate(table, row) ==
    \E i \in DOMAIN table.columns :
        LET col == table.columns[i] IN
        /\ col.primary \/ col.unique
        /\ col.name \in DOMAIN row
        /\ \E r \in Range(table.data) :
              col.name \in DOMAIN r /\ PyEq(r[col.name], row[col.name])

insert(tabs, name, cols, vals_str) ==
    LET table_name == Lower(name) IN
    IF table_name \notin DOMAIN tabs THEN Raise(tabs, "TableNotFound")
    ELSE
    LET table == tabs[table_name]
        lcols == [i \in DOMAIN cols |-> Lower(cols[i])]
    IN
    IF \E i \in DOMAIN lcols : ~HasColumn(table.columns, lcols[i])
    THEN Raise(tabs, "ColumnNotFound")
    ELSE
    LET typ(i) == col_map(table.columns, lcols[i]).type
        bad(i) == i > Len(lcols) \/ ~cast_value(vals_str[i], typ(i)).ok
    IN
    IF \E i \in DOMAIN vals_str : bad(i)
    THEN LET first == CHOOSE i \in DOMAIN vals_str :
                          bad(i) /\ \A j \in 1..(i - 1) : ~bad(j)
         IN  Raise(tabs, IF first > Len(lcols) THEN "IndexError" ELSE "ValueError")
    ELSE
    LET vals == [i \in DOMAIN vals_str |-> cast_value(vals_str[i], typ(i)).v]
        row == zip_row(lcols, vals)
    IN
    IF insert_duplicate(table, row) THEN Raise(tabs, "Duplicate")
    ELSE Done([tabs EXCEPT ![table_name] =
                 [columns |-> table.columns,
                  data |-> Append(table.data, row),
                  indexes |-> indexes_add_row(table.indexes, row, Len(table.data))]])

(***************************************************************************)
(* WHERE.  A condition is comparisons `column op literal` joined by AND    *)
(* and OR: atoms[i] is joined to atoms[i + 1] by conns[i].  The model's    *)
(* literals are never column names and its strings hold no keyword, so     *)
(* the textual substitution of _eval_condition only touches the column     *)
(* tokens.  A condition value is "T", "F" or "E" (eval raised).            *)
(***************************************************************************)
NoWhere == [atoms |-> <<>>, conns |-> <<>>]
Atom(c, o, l) == [col |-> c, op |-> o, lit |-> l]
Where1(a) == [atoms |-> <<a>>, conns |-> <<>>]

\* a column token after substitution: the row's value when the row holds the
\* column (the pattern is matched ignoring case), otherwise an unbound name
Operand(row, col) ==
    IF Lower(col) \in DOMAIN row
    THEN [ok |-> TRUE, v |-> row[Lower(col)]]
    ELSE [ok |-> FALSE, v |-> IntV(0)]

\* a literal as Python reads it: 'x', digits, true/false; any other word is
\* an unbound name
Literal(tok) ==
    IF tok.q THEN [ok |-> TRUE, v |-> StrV(tok.text)]
    ELSE IF IsIntText(tok.text) THEN [ok |-> TRUE, v |-> IntV(IntOf(tok.text))]
    ELSE IF Lower(tok.text) \in {"true", "false"}
         THEN [ok |-> TRUE, v |-> BoolV(Lower(tok.text) = "true")]
    ELSE [ok |-> FALSE, v |-> IntV(0)]

\* Python's < on str, over the strings of the model
StrRank(x) == CASE x = "x" -> 1 [] x = "y" -> 2 [] OTHER -> 0

Compare(op, a, b) ==
    CASE op \in {"=", "=="} -> IF PyEq(a, b) THEN "T" ELSE "F"
      [] op = "!=" -> IF PyEq(a, b) THEN "F" ELSE "T"
      [] OTHER ->
            IF (a.t = "STRING") # (b.t = "STRING") THEN "E"
            ELSE LET x == IF a.t = "STRING" THEN StrRank(a.s) ELSE Num(a)
                     y == IF b.t = "STRING" THEN StrRank(b.s) ELSE Num(b)
                     r == CASE op = "<" -> x < y
                            [] op = "<=" -> x <= y
                            [] op = ">" -> x > y
                            [] OTHER -> x >= y
                 IN  IF r THEN "T" ELSE "F"

AtomVal(row, a) ==
    LET l == Operand(row, a.col)
        r == Literal(a.lit)
    IN  IF ~l.ok \/ ~r.ok THEN "E" ELSE Compare(a.op, l.v, r.v)

\* Python reads `a AND b OR c` as (a and b) or c and `a OR b AND c` as
\* a or (b and c), and evaluates with short circuit, left to right
ChainEnd(w, i) ==
    CHOOSE j \in i..Len(w.atoms) :
        /\ j = Len(w.atoms) \/ w.conns[j] = "OR"
        /\ \A m \in i..(j - 1) : w.conns[m] = "AND"

RECURSIVE AndVal(_, _, _, _)
AndVal(row, w, i, j) ==
    LET v == AtomVal(row, w.atoms[i]) IN
    IF v # "T" \/ i = j THEN v ELSE AndVal(row, w, i + 1, j)

RECURSIVE OrVal(_, _, _)
OrVal(row, w, i) ==
    LET j == ChainEnd(w, i)
        v == AndVal(row, w, i, j)
    IN  IF v # "F" \/ j = Len(w.atoms) THEN v ELSE OrVal(row, w, j + 1)

eval_condition(row, where_part) == OrVal(row, where_part, 1)

\* [i for i, row in enumerate(data) if self._eval_condition(row, where_part)]
ScanRaises(data, w) == \E i \in DOMAIN data : eval_condition(data[i], w) = "E"
ScanIdxs(data, w) == {i - 1 : i \in {j \in DOMAIN data : eval_condition(data[j], w) = "T"}}

\* the rows of data at the row-ids of s, in ascending row-id order
RECURSIVE RowsAt(_, _)
RowsAt(data, s) ==
    IF s = {} THEN <<>>
    ELSE LET m == CHOOSE x \in s : \A y \in s : y <= x
         IN  Append(RowsAt(data, s \ {m}), data[m + 1])

(***************************************************************************)
(* SELECT cols FROM name [WHERE where]                                     *)
(***************************************************************************)
\* the test that sends _filter_data to the index: one comparison with = and
\* the column token, as typed, is a key of the table's indexes
fast_path(where_part, columns, indexes) ==
    /\ Len(where_part.atoms) = 1
    /\ where_part.atoms[1].op \in {"=", "=="}
    /\ where_part.atoms[1].col \in DOMAIN indexes
    /\ HasColumn(columns, where_part.atoms[1].col)

\* next(c for c in columns if c['name'] == col): the first definition of col
first_column(columns, c) ==
    columns[CHOOSE i \in DOMAIN columns :
                /\ columns[i].name = c
                /\ \A j \in DOMAIN columns : columns[j].name = c => i <= j]

\* [data[i] for i in row_idxs if i < len(data)]
bucket_rows(data, row_idxs) ==
    LET keep == SelectSeq(row_idxs, LAMBDA i : i < Len(data))
    IN  [j \in DOMAIN keep |-> data[keep[j] + 1]]

filter_data(data, where_part, columns, indexes) ==
    IF where_part.atoms = <<>> THEN [status |-> "ok", rows |-> data]
    ELSE IF fast_path(where_part, columns, indexes)
    THEN LET a == where_part.atoms[1]
             c == cast_value(a.lit, first_column(columns, a.col).type)
             idx_dict == indexes[a.col]
         IN  IF ~c.ok THEN [status |-> "ValueError", rows |-> <<>>]
             ELSE [status |-> "ok",
                   rows |-> bucket_rows(data, IF c.v \in DOMAIN idx_dict
                                              THEN idx_dict[c.v] ELSE <<>>)]
    ELSE IF ScanRaises(data, where_part)
         THEN [status |-> "InvalidWhere", rows |-> <<>>]
         ELSE [status |-> "ok", rows |-> RowsAt(data, ScanIdxs(data, where_part))]

\* the projection list is cut from the upper-cased statement
Star == <<"*">>
project_cols(data, cols) ==
    IF cols = <<>> \/ cols = Star THEN data
    ELSE [i \in DOMAIN data |->
            [c \in {cols[j] : j \in DOMAIN cols} \cap DOMAIN data[i] |-> data[i][c]]]

select(tabs, cols, name, where_part) ==
    LET t == Lower(Upper(name)) IN
    IF t \notin DOMAIN tabs THEN Raise(tabs, "TableNotFound")
    ELSE LET table == tabs[t]
             f == filter_data(table.data, where_part, table.columns, table.indexes)
             ucols == [i \in DOMAIN cols |-> Upper(cols[i])]
         IN  IF f.status # "ok" THEN Raise(tabs, f.status)
             ELSE Rows(tabs, project_cols(f.rows, ucols))

(***************************************************************************)
(* SELECT * FROM name1 JOIN name2 ON col1=col2 (no WHERE).  A joined row   *)
(* is kept as the pair of rows it was built from; the length of the result *)
(* list does not depend on the key prefixes.                               *)
(***************************************************************************)
\* row.get(col): None when the row does not hold col
Get(row, col) == IF col \in DOMAIN row THEN [some |-> TRUE, v |-> row[col]]
                 ELSE [some |-> FALSE, v |-> IntV(0)]

\* Python's == on the results of dict.get: None equals only None
GetEq(a, b) == IF a.some /\ b.some THEN PyEq(a.v, b.v) ELSE a.some = b.some

\* the pairs made for one row of table 1 whose join key is key, in the
\* order of table 2
RECURSIVE PairsWith(_, _, _, _)
PairsWith(row1, key, data2, col2) ==
    IF data2 = <<>> THEN <<>>
    ELSE (IF GetEq(key, Get(Head(data2), col2))
          THEN <<[l |-> row1, r |-> Head(data2)]>> ELSE <<>>)
         \o PairsWith(row1, key, Tail(data2), col2)

\* the nested loop: row1.get(col1) == row2.get(col2)
RECURSIVE join_nested(_, _, _, _)
join_nested(data1, data2, col1, col2) ==
    IF data1 = <<>> THEN <<>>
    ELSE PairsWith(Head(data1), Get(Head(data1), col1), data2, col2)
         \o join_nested(Tail(data1), data2, col1, col2)

\* the pairs of one bucket: for row_idx in row_idxs, row1 = t1['data'][row_idx]
RECURSIVE join_bucket(_, _, _, _, _)
join_bucket(data1, data2, col2, val, row_idxs) ==
    IF row_idxs = <<>> THEN <<>>
    ELSE PairsWith(data1[Head(row_idxs) + 1], [some |-> TRUE, v |-> val], data2, col2)
         \o join_bucket(data1, data2, col2, val, Tail(row_idxs))

\* the index-driven loop over the buckets of idx; the order of the buckets
\* (the dict's insertion order) is not kept by the model
RECURSIVE join_indexed(_, _, _, _, _)
join_indexed(data1, data2, col2, idx, vals) ==
    IF vals = {} THEN <<>>
    ELSE LET val == CHOOSE v \in vals : TRUE
         IN  join_bucket(data1, data2, col2, val, idx[val])
             \o join_indexed(data1, data2, col2, idx, vals \ {val})

\* t1['data'][row_idx] raises IndexError when a bucket holds a row-id that
\* is not a position of data
join_raises(data1, idx) ==
    \E val \in DOMAIN idx : \E i \in Range(idx[val]) : i >= Len(data1)

join(tabs, name1, name2, col1, col2) ==
    LET table1 == Lower(Upper(name1))
        table2 == Lower(Upper(name2))
        join_col1 == Lower(Upper(col1))
        join_col2 == Lower(Upper(col2))
    IN
    IF table1 \notin DOMAIN tabs \/ table2 \notin DOMAIN tabs
    THEN Raise(tabs, "TableNotFound")
    ELSE LET t1 == tabs[table1]
             t2 == tabs[table2]
         IN  IF join_col1 \in DOMAIN t1.indexes
             THEN IF join_raises(t1.data, t1.indexes[join_col1])
                  THEN Raise(tabs, "IndexError")
                  ELSE Rows(tabs, join_indexed(t1.data, t2.data, join_col2,
                                               t1.indexes[join_col1],
                                               DOMAIN t1.indexes[join_col1]))
             ELSE Rows(tabs, join_nested(t1.data, t2.data, join_col1, join_col2))

(***************************************************************************)
(* UPDATE name SET col=val, ... WHERE where                                *)
(***************************************************************************)
\* update_duplicate, had it compared the new value with every row, the
\* target row included
update_duplicate_any_row(table, updates, idx) ==
    \E col \in DOMAIN updates :
        /\ col_map(table.columns, col).primary \/ col_map(table.columns, col).unique
        /\ \E r \in Range(table.data) : col \in DOMAIN r /\ PyEq(updates[col], r[col])

\* the uniqueness check of _update for the row at row-id idx
update_duplicate(table, updates, idx) ==
    LET old_row == table.data[idx + 1] IN
    \E col \in DOMAIN updates :
        /\ col_map(table.columns, col).primary \/ col_map(table.columns, col).unique
        /\ ~GetEq([some |-> TRUE, v |-> updates[col]], Get(old_row, col))
        /\ \E r \in Range(table.data) :
              /\ col \in DOMAIN r
              /\ r # old_row
              /\ PyEq(updates[col], r[col])

\* one selected row: stale index entries out, new values in, fresh entries in
update_row(table, updates, idx) ==
    LET old_row == table.data[idx + 1]
        removed == [c \in DOMAIN table.indexes |->
                      IF c \in DOMAIN old_row
                      THEN index_remove(table.indexes[c], old_row[c], idx)
                      ELSE table.indexes[c]]
        new_row == [c \in (DOMAIN old_row) \cup (DOMAIN updates) |->
                      IF c \in DOMAIN updates THEN updates[c] ELSE old_row[c]]
    IN  [columns |-> table.columns,
         data |-> [table.data EXCEPT ![idx + 1] = new_row],
         indexes |-> indexes_add_row(removed, new_row, idx)]

\* for idx in filtered_idxs (ascending), stopping at the row whose uniqueness test raises
RECURSIVE update_rows(_, _, _)
update_rows(table, updates, idxs) ==
    IF idxs = {} THEN [table |-> table, ok |-> TRUE]
    ELSE LET idx == CHOOSE x \in idxs : \A y \in idxs : x <= y IN
         IF update_duplicate(table, updates, idx) THEN [table |-> table, ok |-> FALSE]
         ELSE update_rows(update_row(table, updates, idx), updates, idxs \ {idx})

update(tabs, name, set_pairs, where_part) ==
    LET table_name == Lower(name) IN
    IF table_name \notin DOMAIN tabs THEN Raise(tabs, "TableNotFound")
    ELSE
    LET table == tabs[table_name]
        known(i) == HasColumn(table.columns, set_pairs[i].col)
        bad(i) == ~known(i)
                  \/ ~cast_value(set_pairs[i].val,
                                 col_map(table.columns, set_pairs[i].col).type).ok
    IN
    IF \E i \in DOMAIN set_pairs : bad(i)
    THEN LET first == CHOOSE i \in DOMAIN set_pairs :
                          bad(i) /\ \A j \in 1..(i - 1) : ~bad(j)
         IN  Raise(tabs, IF known(first) THEN "ValueError" ELSE "ColumnNotFound")
    ELSE
    LET n == Len(set_pairs)
        updates == [c \in {set_pairs[i].col : i \in 1..n} |->
                      LET i == CHOOSE i \in 1..n :
                                  /\ set_pairs[i].col = c
                                  /\ \A j \in 1..n : set_pairs[j].col = c => j <= i
                      IN  cast_value(set_pairs[i].val, col_map(table.columns, c).type).v]
    IN
    IF ScanRaises(table.data, where_part) THEN Raise(tabs, "InvalidWhere")
    ELSE LET r == update_rows(table, updates, ScanIdxs(table.data, where_part))
             after == [tabs EXCEPT ![table_name] = r.table]
         IN  IF r.ok THEN Counted(after, Cardinality(ScanIdxs(table.data, where_part)))
             ELSE Raise(after, "Duplicate")

(***************************************************************************)
(* DELETE FROM name WHERE where                                            *)
(***************************************************************************)
\* one index of the table after the row at row-id idx was popped: both the
\* removal and the shift sit under `if idx_col in row`
delete_index(idx_dict, row, idx_col, idx) ==
    IF idx_col \in DOMAIN row
    THEN index_shift(index_remove(idx_dict, row[idx_col], idx), idx)
    ELSE idx_dict

delete_row(table, idx) ==
    LET row == table.data[idx + 1] IN
    [columns |-> table.columns,
     data |-> PopAt(table.data, idx),
     indexes |-> [c \in DOMAIN table.indexes |->
                    delete_index(table.indexes[c], row, c, idx)]]

\* delete_rows, had it popped only the largest of the row-ids
delete_rows_last_only(table, idxs) ==
    IF idxs = {} THEN table
    ELSE delete_row(table, CHOOSE x \in idxs : \A y \in idxs : y <= x)

\* for idx in sorted(filtered_idxs, reverse=True)
RECURSIVE delete_rows(_, _)
delete_rows(table, idxs) ==
    IF idxs = {} THEN table
    ELSE LET idx == CHOOSE x \in idxs : \A y \in idxs : y <= x
         IN  delete_rows(delete_row(table, idx), idxs \ {idx})

delete(tabs, name, where_part) ==
    LET table_name == Lower(name) IN
    IF table_name \notin DOMAIN tabs THEN Raise(tabs, "TableNotFound")
    ELSE IF ScanRaises(tabs[table_name].data, where_part) THEN Raise(tabs, "InvalidWhere")
    ELSE LET filtered_idxs == ScanIdxs(tabs[table_name].data, where_part) IN
         Counted([tabs EXCEPT ![table_name] = delete_rows(@, filtered_idxs)],
                 Cardinality(filtered_idxs))

(***************************************************************************)
(* Persistence.  json.dump writes columns and rows as they are; the keys   *)
(* of an index (a dict keyed by values) become JSON strings.               *)
(***************************************************************************)
NoFile == [exists |-> FALSE, tables |-> <<>>]

json_key(v) ==
    CASE v.t = "INT" -> StrV(IntText(v.i))
      [] v.t = "BOOLEAN" -> StrV(IF v.b THEN "true" ELSE "false")
      [] OTHER -> v

json_object(d) ==
    [k \in {json_key(v) : v \in DOMAIN d} |-> d[CHOOSE v \in DOMAIN d : json_key(v) = k]]

json_dump(tabs) ==
    [n \in DOMAIN tabs |->
        [columns |-> tabs[n].columns,
         data |-> tabs[n].data,
         indexes |-> [c \in DOMAIN tabs[n].indexes |-> json_object(tabs[n].indexes[c])]]]

\* _save with a persist_file whose write succeeds
save(tabs) == [exists |-> TRUE, tables |-> json_dump(tabs)]

\* for i, row in enumerate(table['data']): add row to every index of the table
RECURSIVE populate(_, _, _)
populate(indexes, data, i) ==
    IF i >= Len(data) THEN indexes
    ELSE populate(indexes_add_row(indexes, data[i + 1], i), data, i + 1)

\* load_cleared, had load() kept the buckets the file holds
load_kept(table) ==
    LET flagged == DOMAIN empty_indexes(table.columns) IN
    [c \in (DOMAIN table.indexes) \cup flagged |->
        IF c \in DOMAIN table.indexes THEN table.indexes[c] ELSE <<>>]

\* the indexes load() starts from: the file's, with the entry of every column
\* flagged index replaced by an empty dict
load_cleared(table) ==
    LET flagged == DOMAIN empty_indexes(table.columns) IN
    [c \in (DOMAIN table.indexes) \cup flagged |->
        IF c \in flagged THEN <<>> ELSE table.indexes[c]]

load_table(table) ==
    [columns |-> table.columns,
     data |-> table.data,
     indexes |-> populate(load_cleared(table), table.data, 0)]

\* MiniDB.load(): self.tables stays {} when there is no file
load(file) ==
    IF ~file.exists THEN <<>>
    ELSE [n \in DOMAIN file.tables |-> load_table(file.tables[n])]

(***************************************************************************)
(* Statements.  One record shape serves every kind of statement; a field   *)
(* a kind does not use keeps its value in NoStmt.  text holds the words of *)
(* a statement that is submitted as text (see execute below).              *)
(***************************************************************************)
NoStmt == [name |-> "", decls |-> <<>>, cols |-> <<>>, vals |-> <<>>,
           sets |-> <<>>, where |-> NoWhere, name2 |-> "", on |-> <<>>,
           text |-> <<>>]

CreateStmt(n, d) == [NoStmt EXCEPT !.name = n, !.decls = d]
InsertStmt(n, c, v) == [NoStmt EXCEPT !.name = n, !.cols = c, !.vals = v]
SelectStmt(c, n, w) == [NoStmt EXCEPT !.name = n, !.cols = c, !.where = w]
JoinStmt(n1, n2, c1, c2) == [NoStmt EXCEPT !.name = n1, !.name2 = n2, !.on = <<c1, c2>>]
UpdateStmt(n, s, w) == [NoStmt EXCEPT !.name = n, !.sets = s, !.where = w]
DeleteStmt(n, w) == [NoStmt EXCEPT !.name = n, !.where = w]
Set1(c, v) == <<[col |-> c, val |-> v]>>

(***************************************************************************)
(* Dispatch and parsing.  A statement submitted as text is the sequence of *)
(* its words; a parenthesis and an = sign are words of their own, and a    *)
(* list between parentheses has one word per item.  The statements of the  *)
(* model have one column definition, one SET pair, a WHERE of one          *)
(* comparison (three words) and no JOIN.                                   *)
(***************************************************************************)
WordAt(words, i) == IF i \in DOMAIN words THEN Upper(words[i]) ELSE ""

\* \w+ : a word that is not punctuation
IsName(words, i) == i \in DOMAIN words /\ words[i] \notin {"(", ")", "=", "*", ""}

\* the positions of a word in the statement
Positions(words, w) == {i \in DOMAIN words : Upper(words[i]) = w}
LastPos(ps) == CHOOSE i \in ps : \A j \in ps : j <= i
FirstPos(ps) == CHOOSE i \in ps : \A j \in ps : i <= j

Lits(words) == [i \in DOMAIN words |-> Lit(words[i])]

\* the WHERE text after the keyword, as one comparison
where_of(words) == Where1(Atom(words[1], words[2], Lit(words[3])))

Unparsed(words) == [ok |-> FALSE, stmt |-> [NoStmt EXCEPT !.text = words]]
Parsed(words, stmt) == [ok |-> TRUE, stmt |-> [stmt EXCEPT !.text = words]]

\* the handler execute() hands the statement to, by its first words
dispatch(words) ==
    CASE WordAt(words, 1) = "CREATE" /\ WordAt(words, 2) = "TABLE" -> "CREATE"
      [] WordAt(words, 1) = "INSERT" /\ WordAt(words, 2) = "INTO" -> "INSERT"
      [] WordAt(words, 1) = "SELECT" -> "SELECT"
      [] WordAt(words, 1) = "UPDATE" -> "UPDATE"
      [] WordAt(words, 1) = "DELETE" /\ WordAt(words, 2) = "FROM" -> "DELETE"
      [] OTHER -> "NONE"

\* CREATE TABLE (\w+) \((.+)\)
parse_create(words) ==
    LET close == {j \in Positions(words, ")") : j > 5} IN
    IF IsName(words, 3) /\ WordAt(words, 4) = "(" /\ close # {}
    THEN Parsed(words, CreateStmt(words[3], <<SubSeq(words, 5, LastPos(close) - 1)>>))
    ELSE Unparsed(words)

\* INSERT INTO (\w+) \((.+)\) VALUES \((.+)\)
parse_insert(words) ==
    LET mid == {j \in Positions(words, ")") :
                  j > 5 /\ WordAt(words, j + 1) = "VALUES" /\ WordAt(words, j + 2) = "("}
        close == {m \in Positions(words, ")") : mid # {} /\ m > LastPos(mid) + 3}
    IN  IF IsName(words, 3) /\ WordAt(words, 4) = "(" /\ mid # {} /\ close # {}
        THEN LET j == LastPos(mid) IN
             Parsed(words, InsertStmt(words[3], SubSeq(words, 5, j - 1),
                                      Lits(SubSeq(words, j + 3, LastPos(close) - 1))))
        ELSE Unparsed(words)

\* query_upper.split(' FROM '), then the table and the optional WHERE
parse_select(words) ==
    LET from == {f \in Positions(words, "FROM") : f > 1 /\ f < Len(words)} IN
    IF from = {} THEN Unparsed(words)
    ELSE LET f == FirstPos(from)
             cols == IF f = 2 THEN <<"">> ELSE SubSeq(words, 2, f - 1)
         IN  IF WordAt(words, f + 2) = "WHERE" /\ Len(words) = f + 5
             THEN Parsed(words, SelectStmt(cols, words[f + 1],
                                           where_of(SubSeq(words, f + 3, f + 5))))
             ELSE Parsed(words, SelectStmt(cols, words[f + 1], NoWhere))

\* UPDATE (\w+) SET (.+) WHERE (.+), then each SET pair split at its = sign
parse_update(words) ==
    LET wh == {w \in Positions(words, "WHERE") : w > 4 /\ w < Len(words)} IN
    IF IsName(words, 2) /\ WordAt(words, 3) = "SET" /\ wh # {}
    THEN LET w == LastPos(wh) IN
         IF w = 7 /\ words[5] = "="
         THEN Parsed(words, UpdateStmt(words[2], Set1(words[4], Lit(words[6])),
                                       where_of(SubSeq(words, w + 1, Len(words)))))
         ELSE Unparsed(words)
    ELSE Unparsed(words)

\* parse_delete, had a DELETE without WHERE meant every row
parse_delete_all_rows(words) ==
    IF IsName(words, 3)
    THEN Parsed(words, DeleteStmt(words[3],
                   IF WordAt(words, 4) = "WHERE" /\ Len(words) >= 5
                   THEN where_of(SubSeq(words, 5, Len(words)))
                   ELSE Where1(Atom("uid", ">=", Lit("0")))))
    ELSE Unparsed(words)

\* DELETE FROM (\w+) WHERE (.+)
parse_delete(words) ==
    IF IsName(words, 3) /\ WordAt(words, 4) = "WHERE" /\ Len(words) >= 5
    THEN Parsed(words, DeleteStmt(words[3], where_of(SubSeq(words, 5, Len(words)))))
    ELSE Unparsed(words)

parse(words) ==
    CASE dispatch(words) = "CREATE" -> parse_create(words)
      [] dispatch(words) = "INSERT" -> parse_insert(words)
      [] dispatch(words) = "SELECT" -> parse_select(words)
      [] dispatch(words) = "UPDATE" -> parse_update(words)
      [] dispatch(words) = "DELETE" -> parse_delete(words)
      [] OTHER -> Unparsed(words)

\* MiniDB.execute on a statement given as text
execute(tabs, words) ==
    LET op == dispatch(words)
        st == parse(words).stmt
    IN  IF op = "NONE" THEN Raise(tabs, "Unsupported")
        ELSE IF ~parse(words).ok THEN Raise(tabs, "Syntax")
        ELSE CASE op = "CREATE" -> create_table(tabs, st.name, st.decls)
               [] op = "INSERT" -> insert(tabs, st.name, st.cols, st.vals)
               [] op = "SELECT" -> select(tabs, st.cols, st.name, st.where)
               [] op = "UPDATE" -> update(tabs, st.name, st.sets, st.where)
               [] op = "DELETE" -> delete(tabs, st.name, st.where)

(***************************************************************************)
(* Actions: one call of execute each, over a set of statements.            *)
(***************************************************************************)
\* True while every table of tabs holds at most MaxRows rows
WithinBounds(tabs) == \A n \in DOMAIN tabs : Len(tabs[n].data) <= MaxRows

Execute(op, stmt, r) ==
    /\ WithinBounds(r.tables)
    /\ pre' = tables
    /\ tables' = r.tables
    /\ disk' = IF r.saved THEN save(r.tables) ELSE disk
    /\ last' = [op |-> op, stmt |-> stmt, status |-> r.status,
                saved |-> r.saved, rows |-> r.rows, count |-> r.count]
    /\ web' = web

CreateTable(stmts) ==
    \E st \in stmts : Execute("CREATE", st, create_table(tables, st.name, st.decls))

Insert(stmts) ==
    \E st \in stmts : Execute("INSERT", st, insert(tables, st.name, st.cols, st.vals))

Select(stmts) ==
    \E st \in stmts : Execute("SELECT", st, select(tables, st.cols, st.name, st.where))

Join(stmts) ==
    \E st \in stmts :
        Execute("JOIN", st, join(tables, st.name, st.name2, st.on[1], st.on[2]))

Update(stmts) ==
    \E st \in stmts : Execute("UPDATE", st, update(tables, st.name, st.sets, st.where))

Delete(stmts) ==
    \E st \in stmts : Execute("DELETE", st, delete(tables, st.name, st.where))

\* execute() called with the text of a statement
Submit(texts) ==
    \E words \in texts :
        Execute(dispatch(words), parse(words).stmt, execute(tables, words))

\* what a write that raised may leave on disk: the file as it was (open()
\* raised), or a file cut short that load() cannot read, which leaves
\* self.tables = {} as a snapshot of no table does
save_failed(file) == {file, [exists |-> TRUE, tables |-> <<>>]}

\* save_warning, had _save let the exception through
save_raises(r) == [r EXCEPT !.status = "IOError"]

\* the outcome of a statement whose snapshot write raised: _save catches the
\* exception, prints a warning and returns
save_warning(r) == r

\* the outcome of execute() while persist_file cannot be written
unwritable(tabs, words) ==
    LET r == execute(tabs, words) IN IF r.saved THEN save_warning(r) ELSE r

\* execute() called with the text of a statement while persist_file cannot
\* be written
SubmitUnwritable(texts) ==
    \E words \in texts :
        \E out \in {unwritable(tables, words)} :
            /\ WithinBounds(out.tables)
            /\ pre' = tables
            /\ tables' = out.tables
            /\ disk' \in (IF out.saved THEN save_failed(disk) ELSE {disk})
            /\ last' = [op |-> dispatch(words), stmt |-> parse(words).stmt,
                        status |-> out.status, saved |-> out.saved,
                        rows |-> out.rows, count |-> out.count]
            /\ web' = web

(***************************************************************************)
(* The web layer (src/app.py).  db is one module-level engine.  A request  *)
(* to /execute-sql is handled by the coroutine execute_sql on the server's *)
(* single event loop; between its first line and its return the coroutine  *)
(* has no await, so the loop runs the whole handler, the call of           *)
(* db.execute included, before it runs anything else.                      *)
(***************************************************************************)
NoRequest == [text |-> <<>>, locks |-> {}]
NoWeb == [pending |-> {}, served |-> NoRequest]

\* a client posts a statement; the request waits for the event loop
Receive(texts) ==
    \E words \in texts :
        /\ words \notin web.pending
        /\ Cardinality(web.pending) < MaxRequests
        /\ web' = [web EXCEPT !.pending = @ \cup {words}]
        /\ UNCHANGED <<tables, disk, last, pre>>

\* the locks execute_sql holds while it calls db.execute: it acquires none,
\* and app.py creates none
handler_locks == {}

\* the event loop runs the handler of one waiting request
Handle ==
    \E words \in web.pending :
        \E r \in {execute(tables, words)} :
        /\ WithinBounds(r.tables)
        /\ pre' = tables
        /\ tables' = r.tables
        /\ disk' = IF r.saved THEN save(r.tables) ELSE disk
        /\ last' = [op |-> dispatch(words), stmt |-> parse(words).stmt,
                    status |-> r.status, saved |-> r.saved, rows |-> r.rows,
                    count |-> r.count]
        /\ web' = [pending |-> web.pending \ {words},
                   served |-> [text |-> words, locks |-> handler_locks]]

\* the process is started again: MiniDB(persist_file=...) loads the snapshot;
\* pre keeps the tables of the process that ended
Restart ==
    /\ pre' = tables
    /\ tables' = load(disk)
    /\ disk' = disk
    /\ last' = [op |-> "LOAD", stmt |-> NoStmt, status |-> "ok",
                saved |-> FALSE, rows |-> <<>>, count |-> 0]
    /\ web' = web

\* a new engine and no snapshot file yet
Init ==
    /\ tables = <<>>
    /\ disk = NoFile
    /\ pre = <<>>
    /\ last = [op |-> "INIT", stmt |-> NoStmt, status |-> "ok",
               saved |-> FALSE, rows |-> <<>>, count |-> 0]
    /\ web = NoWeb

(***************************************************************************)
(* Spec: one table t, created as (uid INT PRIMARY, k INT INDEX) or as      *)
(* (uid INT UNIQUE, k INT INDEX), and the statements on it; u is a table   *)
(* that is never created.                                                  *)
(***************************************************************************)
Creates ==
    {CreateStmt(n, d) :
        n \in {"t", "T"},
        d \in { << <<"uid", "INT", "PRIMARY">>, <<"k", "INT", "INDEX">> >>,
                << <<"UID", "int", "unique">>, <<"k", "INT", "INDEX">> >>,
                << <<"uid", "INT", "PRIMARY", "UNIQUE", "INDEX">>, <<"k", "FLOAT">> >>,
                << <<"uid", "INT">>, <<"k">> >> }}

Inserts ==
    {InsertStmt("T", <<"uid">>, <<v>>) : v \in {Lit("1"), Lit("2"), Quoted("x")}}
    \cup {InsertStmt("T", <<"UID", "k">>, <<v, Lit("1")>>) : v \in {Lit("1"), Lit("2")}}
    \cup {InsertStmt("T", <<"k">>, <<Lit("1")>>),
          InsertStmt("T", <<"uid", "k">>, <<Lit("1")>>),
          InsertStmt("T", <<"uid">>, <<Lit("1"), Lit("1")>>),
          InsertStmt("T", <<"zz">>, <<Lit("1")>>),
          InsertStmt("u", <<"uid">>, <<Lit("1")>>)}

Wheres ==
    {Where1(Atom("uid", "=", Lit("1"))),
     Where1(Atom("uid", "=", Lit("2"))),
     Where1(Atom("uid", "!=", Lit("1"))),
     Where1(Atom("uid", ">=", Lit("1"))),
     Where1(Atom("k", "=", Lit("1"))),
     Where1(Atom("K", "=", Lit("1"))),
     Where1(Atom("uid", "=", Lit("x")))}

Selects ==
    {SelectStmt(Star, "T", w) : w \in Wheres \cup {NoWhere}}
    \cup {SelectStmt(<<"uid">>, "T", NoWhere),
          SelectStmt(Star, "u", NoWhere)}

Updates ==
    {UpdateStmt("T", s, w) :
        s \in {Set1("uid", Lit("1")), Set1("uid", Lit("2")), Set1("k", Lit("1"))},
        w \in Wheres}
    \cup {UpdateStmt("T", Set1("UID", Lit("1")), Where1(Atom("uid", "=", Lit("1")))),
          UpdateStmt("T", Set1("uid", Quoted("x")), Where1(Atom("uid", "=", Lit("1")))),
          UpdateStmt("u", Set1("uid", Lit("1")), Where1(Atom("uid", "=", Lit("1"))))}

Deletes ==
    {DeleteStmt("T", w) : w \in Wheres}
    \cup {DeleteStmt("u", Where1(Atom("uid", "=", Lit("1"))))}

Next ==
    \/ CreateTable(Creates)
    \/ Insert(Inserts)
    \/ Select(Selects)
    \/ Update(Updates)
    \/ Delete(Deletes)
    \/ Restart

Spec == Init /\ [][Next]_vars

(***************************************************************************)
(* Properties.                                                             *)
(***************************************************************************)
\* the table a statement names, as the engine resolves it
Target == Lower(last.stmt.name)

\* the row-ids of the rows of data that hold value v in column c
Holding(data, c, v) ==
    {i - 1 : i \in {j \in DOMAIN data : c \in DOMAIN data[j] /\ data[j][c] = v}}

ColumnValues(data, c) == {data[i][c] : i \in {j \in DOMAIN data : c \in DOMAIN data[j]}}

Bucket(idx_dict, v) == IF v \in DOMAIN idx_dict THEN idx_dict[v] ELSE <<>>

\* every column flagged index has an index, and every bucket of every index
\* holds exactly the row-ids of the rows that hold its value
IndexConsistent(table) ==
    /\ \A i \in DOMAIN table.columns :
          table.columns[i].index => table.columns[i].name \in DOMAIN table.indexes
    /\ \A c \in DOMAIN table.indexes :
          \A v \in (DOMAIN table.indexes[c]) \cup ColumnValues(table.data, c) :
              Range(Bucket(table.indexes[c], v)) = Holding(table.data, c, v)

\* C1: in every reachable state, for every table, every indexed column c and
\* every value v, the row-ids in the bucket of c for v are exactly the
\* positions of the rows that hold c = v (so every row-id lies in 0..n-1).
C1_IndexConsistency == \A n \in DOMAIN tables : IndexConsistent(tables[n])

\* the row-ids the WHERE of the last statement selects in the table as it was
Selected == ScanIdxs(pre[Target].data, last.stmt.where)

\* C2: a DELETE that removes one row, at row-id k, from a table whose indexes
\* are consistent leaves the other rows at positions 0..n-2 in their order,
\* and every index of the table consistent with those positions.
C2_DeleteReindex ==
    (/\ last.op = "DELETE"
     /\ last.status = "ok"
     /\ IndexConsistent(pre[Target])
     /\ Cardinality(Selected) = 1)
    => LET k == CHOOSE i \in Selected : TRUE IN
       /\ tables[Target].data = PopAt(pre[Target].data, k)
       /\ IndexConsistent(tables[Target])

\* C3: an INSERT, UPDATE or DELETE that ends in an error leaves the rows and
\* indexes of every table as they were before the statement.
C3_NoPartialApply ==
    (last.op \in {"INSERT", "UPDATE", "DELETE"} /\ last.status # "ok") => tables = pre

\* the last statement is an INSERT of a well-formed row which holds, for a
\* column flagged primary or unique, the value an existing row holds there
C4_Conflict ==
    /\ last.op = "INSERT"
    /\ Target \in DOMAIN pre
    /\ Len(last.stmt.cols) = Len(last.stmt.vals)
    /\ LET table == pre[Target]
           cols == [i \in DOMAIN last.stmt.cols |-> Lower(last.stmt.cols[i])]
           val(i) == cast_value(last.stmt.vals[i], col_map(table.columns, cols[i]).type)
       IN  /\ \A i \in DOMAIN cols : HasColumn(table.columns, cols[i]) /\ val(i).ok
           /\ \E j \in DOMAIN table.columns, i \in DOMAIN cols :
                 /\ table.columns[j].primary \/ table.columns[j].unique
                 /\ cols[i] = table.columns[j].name
                 /\ \A m \in DOMAIN cols : cols[m] = cols[i] => m <= i
                 /\ Holding(table.data, cols[i], val(i).v) # {}

\* C4: an INSERT whose row repeats the value of a primary or unique column of
\* an existing row fails, leaves the tables (rows, row count, indexes) as
\* they were, and writes no snapshot.
C4_InsertDuplicateRejected ==
    C4_Conflict => /\ last.status = "Duplicate"
                   /\ tables = pre
                   /\ ~last.saved

C4_Witness == C4_Conflict /\ last.status = "Duplicate" /\ Len(pre[Target].data) = MaxRows

\* C5: a single-table SELECT answered by the index fast path returns the same
\* set of rows as the per-row evaluation of its predicate over the table.
C5_IndexScanEquivalence ==
    (/\ last.op = "SELECT"
     /\ last.status = "ok"
     /\ last.stmt.cols = Star
     /\ fast_path(last.stmt.where, tables[Target].columns, tables[Target].indexes)
     /\ ~ScanRaises(tables[Target].data, last.stmt.where))
    => Range(last.rows) =
       {tables[Target].data[i + 1] : i \in ScanIdxs(tables[Target].data, last.stmt.where)}

\* C7: a CREATE TABLE that succeeds stores exactly the declared columns in
\* the declared order, and every stored column with primary = true has
\* unique = true and index = true.
C7_CreateColumns ==
    (last.op = "CREATE" /\ last.status = "ok")
    => LET columns == tables[Target].columns
           decls == last.stmt.decls
       IN  /\ Len(columns) = Len(decls)
           /\ \A i \in DOMAIN columns :
                 /\ columns[i].name = Lower(decls[i][1])
                 /\ columns[i].type = Upper(decls[i][2])
                 /\ columns[i].primary => columns[i].unique /\ columns[i].index

\* the snapshot on disk records the columns and rows of the tables in memory
SnapshotCurrent ==
    /\ disk.exists
    /\ DOMAIN disk.tables = DOMAIN tables
    /\ \A n \in DOMAIN tables :
          /\ disk.tables[n].columns = tables[n].columns
          /\ disk.tables[n].data = tables[n].data

\* C8: a CREATE TABLE, INSERT, UPDATE or DELETE that returns successfully has
\* written the snapshot after its last mutation: the snapshot's columns and
\* rows are those of the tables in memory.
C8_SnapshotAfterSuccess ==
    (last.op \in {"CREATE", "INSERT", "UPDATE", "DELETE"} /\ last.status = "ok")
    => last.saved /\ SnapshotCurrent

C8_Witness ==
    /\ last.op = "UPDATE"
    /\ last.status = "ok"
    /\ Cardinality(Selected) = 2
    /\ tables[Target].data # pre[Target].data

\* an index built from nothing over data: one bucket per value a row holds,
\* with the positions of the rows holding it in ascending order
RECURSIVE Ascending(_)
Ascending(s) ==
    IF s = {} THEN <<>>
    ELSE LET m == CHOOSE x \in s : \A y \in s : y <= x
         IN  Append(Ascending(s \ {m}), m)

FromScratch(columns, data) ==
    [c \in {columns[i].name : i \in {j \in DOMAIN columns : columns[j].index}} |->
        [v \in ColumnValues(data, c) |-> Ascending(Holding(data, c, v))]]

\* C10: writing the snapshot of any reachable state and loading it into a new
\* engine gives the same tables, columns and row sequences, with indexes equal
\* to a rebuild from nothing over the reloaded rows.
C10_RoundTrip ==
    LET reloaded == load(save(tables)) IN
    /\ DOMAIN reloaded = DOMAIN tables
    /\ \A n \in DOMAIN tables :
          /\ reloaded[n].columns = tables[n].columns
          /\ reloaded[n].data = tables[n].data
          /\ reloaded[n].indexes = FromScratch(reloaded[n].columns, reloaded[n].data)

\* a restart over the snapshot of a table whose indexes in memory had
\* drifted from its rows
C10_Witness ==
    /\ last.op = "LOAD"
    /\ disk = save(pre)
    /\ \E n \in DOMAIN tables :
          /\ tables[n].data # <<>>
          /\ tables[n].data = pre[n].data
          /\ ~IndexConsistent(pre[n])
          /\ IndexConsistent(tables[n])

\* C11: an INSERT whose column list and value list differ in length (more
\* values than columns, or fewer) ends in an error, adds no row and changes
\* no index.
C11_ArityMismatch ==
    (/\ last.op = "INSERT"
     /\ Target \in DOMAIN pre
     /\ Len(last.stmt.cols) # Len(last.stmt.vals))
    => last.status # "ok" /\ tables = pre

\* C12: a single-table SELECT with a projection list returns, for each
\* selected row, exactly the entries of the row whose column is named in the
\* list (names matched ignoring case); `*` returns the selected rows as they
\* are.
C12_Projection ==
    (last.op = "SELECT" /\ last.status = "ok")
    => LET table == tables[Target]
           chosen == filter_data(table.data, last.stmt.where,
                                 table.columns, table.indexes).rows
           named == {Lower(last.stmt.cols[j]) : j \in DOMAIN last.stmt.cols}
       IN  IF last.stmt.cols = Star THEN last.rows = chosen
           ELSE last.rows = [i \in DOMAIN chosen |->
                               [c \in named \cap DOMAIN chosen[i] |-> chosen[i][c]]]

\* the values an UPDATE assigns, by column (the last pair of a column wins)
SetValues(table, sets) ==
    [c \in {sets[i].col : i \in DOMAIN sets} |->
        LET i == CHOOSE i \in DOMAIN sets :
                    sets[i].col = c /\ \A j \in DOMAIN sets : sets[j].col = c => j <= i
        IN  cast_value(sets[i].val, col_map(table.columns, c).type).v]

\* the UPDATE reached its loop over the selected rows
UpdateRan == last.op = "UPDATE" /\ last.status \in {"ok", "Duplicate"}

\* C17: in a multi-row UPDATE the processing of a selected row, its
\* uniqueness check included, does not observe what the statement wrote to
\* the rows before it: the statement is rejected exactly when a selected row
\* fails the check against the rows as they were before the statement.
C17_NoMidBatchObservation ==
    UpdateRan
    => (last.status = "Duplicate")
       = (\E idx \in Selected :
             update_duplicate(pre[Target], SetValues(pre[Target], last.stmt.sets), idx))

\* C18: a DELETE removes exactly the rows that satisfy its WHERE in the
\* state before the statement: the rows that stay are the rows that do not
\* match, unchanged and in their order, and the count the statement reports
\* is the number of matching rows.
C18_DeleteExactlyMatching ==
    (last.op = "DELETE" /\ last.status = "ok")
    => /\ tables[Target].data
          = SelectSeq(pre[Target].data,
                      LAMBDA row : eval_condition(row, last.stmt.where) # "T")
       /\ last.count = Cardinality(Selected)
       /\ Len(tables[Target].data) = Len(pre[Target].data) - last.count

C18_Witness ==
    /\ last.op = "DELETE"
    /\ last.status = "ok"
    /\ Len(pre[Target].data) = MaxRows
    /\ 0 \in Selected
    /\ tables[Target].data # <<>>

\* the positions of two different rows of data that hold equal values in c
Clash(data, c) ==
    {p \in (DOMAIN data) \X (DOMAIN data) :
        /\ p[1] # p[2]
        /\ c \in DOMAIN data[p[1]]
        /\ c \in DOMAIN data[p[2]]
        /\ PyEq(data[p[1]][c], data[p[2]][c])}

\* C19: in every reachable state, for every column definition flagged
\* primary or unique, no two rows at different positions hold equal values
\* in that column.
C19_Uniqueness ==
    \A n \in DOMAIN tables :
        \A i \in DOMAIN tables[n].columns :
            LET col == tables[n].columns[i] IN
            (col.primary \/ col.unique) => Clash(tables[n].data, col.name) = {}

\* every column definition of a CREATE TABLE has a name and a supported type
ValidDecls(decls) ==
    \A i \in DOMAIN decls : Len(decls[i]) >= 2 /\ Upper(decls[i][2]) \in Types

\* C24: a CREATE TABLE whose name equals, ignoring case, the name of an
\* existing table fails and leaves that table's columns, rows and indexes as
\* they were; a CREATE TABLE with a new name (and valid column definitions)
\* registers a table with no rows and exactly one empty index for each
\* column flagged index, none for the other columns.
C24_CreateExistingOrNew ==
    last.op = "CREATE"
    => IF Target \in DOMAIN pre
       THEN last.status = "TableExists" /\ tables = pre
       ELSE ValidDecls(last.stmt.decls)
            => /\ last.status = "ok"
               /\ DOMAIN tables = (DOMAIN pre) \cup {Target}
               /\ \A n \in DOMAIN pre : tables[n] = pre[n]
               /\ tables[Target].data = <<>>
               /\ LET columns == tables[Target].columns
                      flagged == {columns[i].name :
                                     i \in {j \in DOMAIN columns : columns[j].index}}
                  IN  /\ DOMAIN tables[Target].indexes = flagged
                      /\ \A c \in flagged : tables[Target].indexes[c] = <<>>

\* a CREATE TABLE T was rejected while table t held rows
C24_Witness ==
    /\ last.op = "CREATE"
    /\ last.stmt.name = "T"
    /\ last.status = "TableExists"
    /\ Len(pre["t"].data) = MaxRows
    /\ pre["t"].indexes # empty_indexes(pre["t"].columns)

\* C25: with a persist file whose writes succeed, between any two
\* statements (after execute returned or raised) the snapshot records the
\* columns and rows of the tables in memory, so that a restart recovers the
\* state the running process sees; while no snapshot was written yet, the
\* engine holds no table.
C25_SnapshotTracksMemory ==
    IF disk.exists THEN SnapshotCurrent ELSE tables = <<>>

\* a list of row-ids in strictly ascending order (so none occurs twice)
StrictlyAscending(s) == \A i \in DOMAIN s : \A j \in DOMAIN s : i < j => s[i] < s[j]

\* C21: after any sequence of INSERT, UPDATE and DELETE statements, every
\* bucket of every index lists its row-ids in strictly ascending order, no
\* row-id twice.
C21_SortedBuckets ==
    \A n \in DOMAIN tables :
        \A c \in DOMAIN tables[n].indexes :
            \A v \in DOMAIN tables[n].indexes[c] :
                StrictlyAscending(tables[n].indexes[c][v])

(***************************************************************************)
(* JoinSpec: two tables t and u with columns uid and k, where uid of t is  *)
(* indexed or not, rows that may omit either column, and the join of t     *)
(* with u.                                                                 *)
(***************************************************************************)
JoinCreates ==
    {CreateStmt("t", << <<"uid", "INT", "INDEX">>, <<"k", "INT">> >>),
     CreateStmt("t", << <<"uid", "INT">>, <<"k", "INT">> >>),
     CreateStmt("u", << <<"uid", "INT">>, <<"k", "INT">> >>)}

JoinInserts ==
    {InsertStmt(n, <<"uid">>, <<v>>) : n \in {"t", "u"}, v \in {Lit("1"), Lit("2")}}
    \cup {InsertStmt(n, <<"k">>, <<Lit("1")>>) : n \in {"t", "u"}}

JoinDeletes == {DeleteStmt("t", Where1(Atom("k", "=", Lit("1"))))}

Joins == {JoinStmt("t", "u", "uid", "uid"), JoinStmt("T", "u", "UID", "k")}

NextJoin ==
    \/ CreateTable(JoinCreates)
    \/ Insert(JoinInserts)
    \/ Delete(JoinDeletes)
    \/ Join(Joins)

JoinSpec == Init /\ [][NextJoin]_vars

\* the (row1, row2) pairs whose rows hold the join columns with equal values
PairCount(data1, data2, col1, col2) ==
    Cardinality({p \in (DOMAIN data1) \X (DOMAIN data2) :
                    /\ col1 \in DOMAIN data1[p[1]]
                    /\ col2 \in DOMAIN data2[p[2]]
                    /\ PyEq(data1[p[1]][col1], data2[p[2]][col2])})

\* C6: the join of two tables returns as many rows as there are (row1, row2)
\* pairs with row1.c1 equal to row2.c2, and as many on the index-driven path
\* (c1 indexed in t1) as on the nested-loop path over the same rows.
C6_JoinCardinality ==
    (/\ last.op = "JOIN"
     /\ last.status = "ok"
     /\ IndexConsistent(tables[Target]))
    => LET data1 == tables[Target].data
           data2 == tables[Lower(last.stmt.name2)].data
           col1 == Lower(last.stmt.on[1])
           col2 == Lower(last.stmt.on[2])
           idx == [v \in ColumnValues(data1, col1) |-> Ascending(Holding(data1, col1, v))]
       IN  /\ Len(last.rows) = PairCount(data1, data2, col1, col2)
           /\ Len(join_nested(data1, data2, col1, col2))
              = Len(join_indexed(data1, data2, col2, idx, DOMAIN idx))

(***************************************************************************)
(* LoadSpec: the engine is constructed over a snapshot file that exists.   *)
(* The file is one the engine wrote, or one that went stale or was edited  *)
(* by hand: its `indexes` section need not match its `data`.               *)
(***************************************************************************)
SnapshotColumns ==
    << [name |-> "uid", type |-> "INT", primary |-> TRUE, unique |-> TRUE, index |-> TRUE],
       [name |-> "k", type |-> "INT", primary |-> FALSE, unique |-> FALSE, index |-> FALSE] >>

SnapshotData ==
    << [c \in {"uid", "k"} |-> IntV(1)] >>

Snapshots ==
    {[exists |-> TRUE,
      tables |-> [n \in {"t"} |->
                    [columns |-> SnapshotColumns, data |-> SnapshotData, indexes |-> ix]]] :
        ix \in { [c \in {"uid"} |-> [v \in {StrV("1")} |-> <<0>>]],
                 [c \in {"uid"} |-> [v \in {StrV("1"), StrV("2")} |-> <<1>>]],
                 [c \in {"uid", "k"} |-> [v \in {StrV("1")} |-> <<1>>]] }}

LoadInserts ==
    {InsertStmt("t", <<"uid", "k">>, <<Lit("2"), Lit("1")>>),
     InsertStmt("t", <<"uid">>, <<Lit("2")>>)}

LoadSelects ==
    {SelectStmt(Star, "t", w) :
        w \in {Where1(Atom("k", "=", Lit("1"))), Where1(Atom("uid", "=", Lit("1")))}}

LoadDeletes == {DeleteStmt("t", Where1(Atom("uid", "=", Lit(v)))) : v \in {"1", "2"}}

InitLoad ==
    /\ disk \in Snapshots
    /\ tables = load(disk)
    /\ pre = <<>>
    /\ last = [op |-> "LOAD", stmt |-> NoStmt, status |-> "ok",
               saved |-> FALSE, rows |-> <<>>, count |-> 0]
    /\ web = NoWeb

NextLoad ==
    \/ Insert(LoadInserts)
    \/ Select(LoadSelects)
    \/ Delete(LoadDeletes)
    \/ Restart

LoadSpec == InitLoad /\ [][NextLoad]_vars

\* C9: after a load, whatever the `indexes` section of the file holds, every
\* table's indexes are a rebuild from nothing over the loaded rows.
C9_LoadRebuildsIndexes ==
    last.op = "LOAD"
    => \A n \in DOMAIN tables :
          tables[n].indexes = FromScratch(tables[n].columns, tables[n].data)

(***************************************************************************)
(* WhereSpec: a table t(uid INT, k INT) and SELECTs whose WHERE joins      *)
(* three comparisons with AND and OR.  On a row with uid = 1 the           *)
(* comparison uid=1 is true and uid=2 is false, so the conditions range    *)
(* over every assignment of truth values and every pair of connectives;    *)
(* zz is a name no row holds.                                              *)
(***************************************************************************)
WhereCreates == {CreateStmt("t", << <<"uid", "INT">>, <<"k", "INT">> >>)}

WhereInserts ==
    {InsertStmt("t", <<"uid", "k">>, <<Lit(v), Lit("1")>>) : v \in {"1", "2"}}

WhereAtoms == {Atom("uid", "=", Lit("1")), Atom("uid", "=", Lit("2"))}

Connectives == {"AND", "OR"}

Wheres3 ==
    {[atoms |-> <<a, b, c>>, conns |-> <<x, y>>] :
        a \in WhereAtoms, b \in WhereAtoms, c \in WhereAtoms,
        x \in Connectives, y \in Connectives}
    \cup {[atoms |-> <<Atom("uid", "=", Lit("1")), Atom("zz", "=", Lit("1"))>>,
           conns |-> <<x>>] : x \in Connectives}

WhereSelects == {SelectStmt(Star, "t", w) : w \in Wheres3}

NextWhere ==
    \/ CreateTable(WhereCreates)
    \/ Insert(WhereInserts)
    \/ Select(WhereSelects)

WhereSpec == Init /\ [][NextWhere]_vars

\* the value of the first i comparisons of w on row, taken strictly left to
\* right: ((a1 c1 a2) c2 a3) ...
RECURSIVE LeftToRight(_, _, _)
LeftToRight(row, w, i) ==
    LET a == AtomVal(row, w.atoms[i]) = "T" IN
    IF i = 1 THEN a
    ELSE IF w.conns[i - 1] = "AND" THEN LeftToRight(row, w, i - 1) /\ a
         ELSE LeftToRight(row, w, i - 1) \/ a

\* every comparison of w has a truth value on every row of data
AllDefined(data, w) ==
    \A j \in DOMAIN data : \A i \in DOMAIN w.atoms : AtomVal(data[j], w.atoms[i]) # "E"

\* C13: a WHERE that joins comparisons with AND and OR is evaluated strictly
\* left to right, with no precedence between AND and OR: the SELECT returns
\* the rows on which the left-to-right value of the condition is true.
C13_LeftToRight ==
    (/\ last.op = "SELECT"
     /\ Target \in DOMAIN tables
     /\ Len(last.stmt.where.atoms) >= 2
     /\ AllDefined(tables[Target].data, last.stmt.where))
    => /\ last.status = "ok"
       /\ last.rows = SelectSeq(tables[Target].data,
                                LAMBDA row : LeftToRight(row, last.stmt.where,
                                                         Len(last.stmt.where.atoms)))

(***************************************************************************)
(* ParseSpec: statements arrive as text.  Some are well formed; the others *)
(* start with a word execute() does not know, or do not match the form     *)
(* their handler expects.                                                  *)
(***************************************************************************)
WellFormed ==
    {<<"CREATE", "TABLE", "t", "(", "uid", "INT", "PRIMARY", ")">>,
     <<"INSERT", "INTO", "t", "(", "uid", ")", "VALUES", "(", "1", ")">>,
     <<"INSERT", "INTO", "T", "(", "UID", ")", "VALUES", "(", "2", ")">>,
     <<"SELECT", "*", "FROM", "t">>,
     <<"SELECT", "*", "FROM", "t", "WHERE", "uid", "=", "1">>,
     <<"UPDATE", "t", "SET", "uid", "=", "2", "WHERE", "uid", "=", "1">>,
     <<"DELETE", "FROM", "t", "WHERE", "uid", "=", "1">>}

Malformed ==
    {<<"DROP", "TABLE", "t">>,
     <<"TRUNCATE", "t">>,
     <<>>,
     <<"CREATE", "t", "(", "uid", "INT", ")">>,
     <<"CREATE", "TABLE", "u">>,
     <<"CREATE", "TABLE", "(", "uid", "INT", ")">>,
     <<"INSERT", "t", "(", "uid", ")", "VALUES", "(", "2", ")">>,
     <<"INSERT", "INTO", "t", "VALUES", "(", "2", ")">>,
     <<"INSERT", "INTO", "t", "(", "uid", ")", "(", "2", ")">>,
     <<"SELECT", "*">>,
     <<"SELECT", "t">>,
     <<"UPDATE", "t", "SET", "uid", "=", "2">>,
     <<"UPDATE", "t", "uid", "=", "2", "WHERE", "uid", "=", "1">>,
     <<"UPDATE", "t", "SET", "uid", "2", "WHERE", "uid", "=", "1">>,
     <<"DELETE", "FROM", "t">>,
     <<"DELETE", "t", "WHERE", "uid", "=", "1">>,
     <<"DELETE", "FROM", "WHERE", "uid", "=", "1">>}

NextParse ==
    \/ Submit(WellFormed)
    \/ Submit(Malformed)
    \/ Restart

ParseSpec == Init /\ [][NextParse]_vars

Rejected == {"Unsupported", "Syntax"}

\* C14: a statement rejected at dispatch or at parse leaves the set of
\* tables, every row, every index and the snapshot as they were.
C14_RejectedFrame ==
    [][(last'.op # "LOAD"
        /\ (last'.status \in Rejected \/ last'.stmt.text \in Malformed))
       => (last'.status \in Rejected /\ tables' = tables /\ disk' = disk)]_vars

C14_Witness ==
    /\ last.op # "LOAD"
    /\ last.stmt.text \in Malformed
    /\ last.status \in Rejected
    /\ "t" \in DOMAIN tables
    /\ Len(tables["t"].data) = MaxRows
    /\ disk = save(tables)

(***************************************************************************)
(* FailSpec: persist_file cannot be written; every snapshot write raises.  *)
(***************************************************************************)
FailTexts ==
    WellFormed
    \cup {<<"UPDATE", "t", "SET", "uid", "=", "3", "WHERE", "uid", ">=", "1">>,
          <<"DELETE", "FROM", "t", "WHERE", "uid", ">=", "2">>,
          <<"DELETE", "FROM", "t">>}

NextFail == SubmitUnwritable(FailTexts)

FailSpec == Init /\ [][NextFail]_vars

\* C15: when the snapshot write fails in a mutating statement, the statement
\* still returns its success result and the tables, rows and indexes in
\* memory hold the statement's full effect (on which the next statement
\* operates).
C15_WriteFailureKeepsEffect ==
    last.saved
    => /\ last.status = "ok"
       /\ tables = execute(pre, last.stmt.text).tables
       /\ disk \in save_failed(NoFile)

C15_Witness ==
    /\ last.op \in {"UPDATE", "DELETE"}
    /\ last.saved
    /\ tables # pre
    /\ disk # save(tables)

(***************************************************************************)
(* WebSpec: clients post statements to the web layer, several at a time;   *)
(* the event loop handles the waiting requests in any order.               *)
(***************************************************************************)
NextWeb ==
    \/ Receive(FailTexts)
    \/ Handle

WebSpec == Init /\ [][NextWeb]_vars

\* C16: every call the web layer makes into the engine is made under a
\* single exclusive lock held around the whole execute call.
C16_SerializedByLock ==
    web.served # NoRequest => web.served.locks # {}

(***************************************************************************)
(* UniqueSpec: a table t with a column uid that carries a uniqueness flag  *)
(* and a plain column k.  CREATE TABLE accepts a column name that is       *)
(* declared twice; the table is created with uid declared once, or twice   *)
(* with the flag on the first or on the second declaration.  Rows that     *)
(* hold k alone are structurally equal.                                    *)
(***************************************************************************)
UniqueCreates ==
    {CreateStmt("t", d) :
        d \in { << <<"uid", "INT", "PRIMARY">>, <<"k", "INT">> >>,
                << <<"uid", "INT", "UNIQUE">>, <<"uid", "INT">>, <<"k", "INT">> >>,
                << <<"uid", "INT">>, <<"uid", "INT", "UNIQUE">>, <<"k", "INT">> >> }}

UniqueInserts ==
    {InsertStmt("t", <<"uid">>, <<Lit(v)>>) : v \in {"1", "2"}}
    \cup {InsertStmt("t", <<"k">>, <<Lit("1")>>),
          InsertStmt("t", <<"uid", "k">>, <<Lit("1"), Lit("1")>>)}

UniqueUpdates ==
    {UpdateStmt("t", s, Where1(w)) :
        s \in {Set1("uid", Lit("1")), Set1("uid", Lit("2")), Set1("k", Lit("1"))},
        w \in {Atom("uid", "=", Lit("1")), Atom("uid", "=", Lit("2")),
               Atom("uid", ">=", Lit("1")), Atom("k", "=", Lit("1"))}}

UniqueDeletes == {DeleteStmt("t", Where1(Atom("k", "=", Lit("1"))))}

NextUnique ==
    \/ CreateTable(UniqueCreates)
    \/ Insert(UniqueInserts)
    \/ Update(UniqueUpdates)
    \/ Delete(UniqueDeletes)

UniqueSpec == Init /\ [][NextUnique]_vars

\* a uniqueness check by row-id: some row at a row-id other than idx holds
\* the new value of a column that _update treats as primary or unique
ByRowId(table, updates, idx) ==
    \E col \in DOMAIN updates :
        /\ col_map(table.columns, col).primary \/ col_map(table.columns, col).unique
        /\ \E j \in DOMAIN table.data :
              /\ j # idx + 1
              /\ col \in DOMAIN table.data[j]
              /\ PyEq(updates[col], table.data[j][col])

\* the assignments the check is compared on
Assignments == {[c \in {col} |-> IntV(v)] : col \in {"uid", "k"}, v \in 1..2}

\* C20: in every reachable state, the uniqueness check of UPDATE (which
\* skips a value equal to the row's old one and leaves out the rows
\* structurally equal to the target) rejects the update of a row exactly
\* when a row at another row-id holds the new value.
C20_CheckByRowId ==
    \A n \in DOMAIN tables :
        \A i \in DOMAIN tables[n].data :
            \A updates \in Assignments :
                update_duplicate(tables[n], updates, i - 1)
                = ByRowId(tables[n], updates, i - 1)

\* two structurally equal rows were selected by an UPDATE of the unique
\* column; the first was changed and the second rejected
C20_Witness ==
    /\ last.op = "UPDATE"
    /\ last.status = "Duplicate"
    /\ Len(pre[Target].data) = 2
    /\ pre[Target].data[1] = pre[Target].data[2]
    /\ Selected = {0, 1}
    /\ tables # pre

\* C23: after a CREATE TABLE that succeeds, no two columns of the created
\* table have the same name under case folding; a column list that repeats
\* a name does not give a table with two columns of that name.
C23_DistinctColumnNames ==
    (last.op = "CREATE" /\ last.status = "ok")
    => LET columns == tables[Target].columns IN
       \A i \in DOMAIN columns : \A j \in DOMAIN columns :
           i # j => Lower(columns[i].name) # Lower(columns[j].name)

(***************************************************************************)
(* ReindexSpec: a table t(uid INT PRIMARY, k INT INDEX), both columns      *)
(* indexed, rows that hold k or not, and UPDATEs that give an indexed      *)
(* column a new value, its old value, or its first value.  The DELETE      *)
(* brings the table into states whose indexes are not consistent.          *)
(***************************************************************************)
ReindexCreates ==
    {CreateStmt("t", << <<"uid", "INT", "PRIMARY">>, <<"k", "INT", "INDEX">> >>)}

ReindexInserts ==
    {InsertStmt("t", <<"uid">>, <<Lit(v)>>) : v \in {"1", "2"}}
    \cup {InsertStmt("t", <<"uid", "k">>, <<Lit(v), Lit("1")>>) : v \in {"1", "2"}}

ReindexUpdates ==
    {UpdateStmt("t", s, Where1(w)) :
        s \in {Set1("k", Lit("1")), Set1("k", Lit("2")), Set1("uid", Lit("3"))},
        w \in {Atom("uid", "=", Lit("1")), Atom("uid", ">=", Lit("1"))}}

ReindexDeletes == {DeleteStmt("t", Where1(Atom("uid", "=", Lit("1"))))}

NextReindex ==
    \/ CreateTable(ReindexCreates)
    \/ Insert(ReindexInserts)
    \/ Update(ReindexUpdates)
    \/ Delete(ReindexDeletes)

ReindexSpec == Init /\ [][NextReindex]_vars

\* no bucket of the table's indexes holds a row-id twice
NoRepeats(table) ==
    \A c \in DOMAIN table.indexes :
        \A v \in DOMAIN table.indexes[c] :
            Cardinality(Range(table.indexes[c][v])) = Len(table.indexes[c][v])

\* the last statement is an UPDATE that succeeded on a table whose indexes
\* were consistent, each bucket a set of row-ids
UpdatedConsistent ==
    /\ last.op = "UPDATE"
    /\ last.status = "ok"
    /\ IndexConsistent(pre[Target])
    /\ NoRepeats(pre[Target])

\* C22: a successful UPDATE of a table whose indexes are consistent leaves
\* them consistent: for every updated row-id i and every indexed column, i is
\* not in the bucket of the row's old value unless the value is unchanged, i
\* is in the bucket of the row's new value (also when the row did not hold
\* the column before), and the buckets hold the row-ids of the rows the
\* WHERE did not select exactly where they held them.
C22_UpdateReindex ==
    UpdatedConsistent
    => LET before == pre[Target]
           after == tables[Target]
       IN  /\ IndexConsistent(after)
           /\ NoRepeats(after)
           /\ DOMAIN after.indexes = DOMAIN before.indexes
           /\ \A c \in DOMAIN after.indexes :
                 /\ \A i \in Selected :
                       LET old == before.data[i + 1]
                           new == after.data[i + 1]
                       IN  /\ (c \in DOMAIN old /\ c \in DOMAIN new /\ new[c] # old[c])
                              => i \notin Range(Bucket(after.indexes[c], old[c]))
                           /\ c \in DOMAIN new
                              => i \in Range(Bucket(after.indexes[c], new[c]))
                 /\ \A j \in (0..(Len(before.data) - 1)) \ Selected :
                       \A v \in (DOMAIN before.indexes[c]) \cup (DOMAIN after.indexes[c]) :
                           (j \in Range(Bucket(after.indexes[c], v)))
                           = (j \in Range(Bucket(before.indexes[c], v)))

\* an UPDATE moved one row from the bucket of its old value of an indexed
\* column to the bucket of its new value, next to a row it did not select
C22_Witness ==
    /\ UpdatedConsistent
    /\ Len(pre[Target].data) = MaxRows
    /\ Cardinality(Selected) = 1
    /\ \E i \in Selected : \E c \in DOMAIN tables[Target].indexes :
          /\ c \in DOMAIN pre[Target].data[i + 1]
          /\ tables[Target].data[i + 1][c] # pre[Target].data[i + 1][c]

(***************************************************************************)
(* ReadSpec: the two tables of JoinSpec, read by single-table SELECTs      *)
(* (with a WHERE answered by an index, by a scan, or none; on a table that *)
(* does not exist; with a WHERE that raises on a row lacking the column)   *)
(* and by JOINs, between the statements that change the tables.            *)
(***************************************************************************)
ReadSelects ==
    {SelectStmt(Star, "t", w) :
        w \in {NoWhere, Where1(Atom("uid", "=", Lit("1"))), Where1(Atom("k", "=", Lit("1")))}}
    \cup {SelectStmt(<<"uid">>, "U", NoWhere), SelectStmt(Star, "zz", NoWhere)}

NextRead ==
    \/ CreateTable(JoinCreates)
    \/ Insert(JoinInserts)
    \/ Delete(JoinDeletes)
    \/ Select(ReadSelects)
    \/ Join(Joins)

ReadSpec == Init /\ [][NextRead]_vars

\* C26: a SELECT, single-table or JOIN, with or without WHERE, succeeding or
\* failing, leaves the set of tables and every table's columns, rows and
\* indexes as they were and writes no snapshot.
C26_SelectFrame ==
    [][last'.op \in {"SELECT", "JOIN"}
       => (tables' = tables /\ disk' = disk /\ ~last'.saved)]_vars

\* a JOIN returned rows from two tables that hold rows
C26_Witness ==
    /\ last.op = "JOIN"
    /\ last.status = "ok"
    /\ last.rows # <<>>
    /\ \A n \in {"t", "u"} : n \in DOMAIN tables /\ tables[n].data # <<>>
    /\ disk = save(tables)

====
